---- MODULE Spec2Model ----
(***************************************************************************)
(* weebasic: a single-pass compiler (scanner + recursive-descent parser    *)
(* emitting bytecode) and a stack-based bytecode interpreter.              *)
(*                                                                         *)
(* The source text is a sequence of one-character strings; the cursor      *)
(* `pos` is a 1-based index into it and the terminating NUL sits at        *)
(* Len(src) + 1.  Instruction indices, slot indices and the program        *)
(* counter are 0-based as in the C code, so instruction k is insns[k + 1]. *)
(***************************************************************************)
EXTENDS Integers, Sequences, FiniteSets, TLC

VARIABLES src, pos, insns, locals, ghost, last, status, exitcode, errmsg,
          pc, stack, lvars, out, log

vars == <<src, pos, insns, locals, ghost, last, status, exitcode, errmsg,
         pc, stack, lvars, out, log>>

(***************************************************************************)
(* Program constants                                                       *)
(***************************************************************************)
MAX_INSTRS == 65536
MAX_IDENT_LEN == 64
MAX_LOCALS == 128
MAX_STACK == 32

(***************************************************************************)
(* Bounds of the model                                                     *)
(***************************************************************************)
\* number of source fragments concatenated into one source text
MaxStmts == 3
\* number of digits of the literal in the `print <literal>` sources
MaxDigits == 2
\* width in bits of int64_t in the model (64 in the program)
IntBits == 16

(***************************************************************************)
(* int64_t, IntBits wide                                                   *)
(***************************************************************************)
\* The literals of the sources and the runs of digits on standard input stay
\* below INT64_MAX, so that 10 * num + digit in parse_int and in READINT
\* never leaves int64_t; sums and differences can.
INT64_MAX == (2 ^ (IntBits - 1)) - 1

INT64_MIN == (0 - INT64_MAX) - 1

\* the sum or difference v is not a value of int64_t
Overflows(v) == v < INT64_MIN \/ v > INT64_MAX

\* v modulo 2^IntBits, in two's complement
Wrap(v) == ((v - INT64_MIN) % (2 ^ IntBits)) + INT64_MIN

(***************************************************************************)
(* Characters                                                              *)
(***************************************************************************)
NUL == "NUL"

DigitChars == <<"0", "1", "2", "3", "4", "5", "6", "7", "8", "9">>

AlphaChars == <<"a", "b", "c", "d", "e", "f", "g", "h", "i", "j", "k", "l", "m", "n", "o", "p", "q", "r", "s", "t", "u", "v", "w", "x", "y", "z", "A", "B", "C", "D", "E", "F", "G", "H", "I", "J", "K", "L", "M", "N", "O", "P", "Q", "R", "S", "T", "U", "V", "W", "X", "Y", "Z">>

isdigit(ch) == \E i \in 1..10 : DigitChars[i] = ch

isalpha(ch) == \E i \in 1..52 : AlphaChars[i] = ch

isalnum(ch) == isalpha(ch) \/ isdigit(ch)

\* ch - '0'
DigitVal(ch) == (CHOOSE i \in 1..10 : DigitChars[i] = ch) - 1

\* **pstr: the character under the cursor, NUL at the end of the buffer
Ch(s, p) == IF p <= Len(s) THEN s[p] ELSE NUL

(***************************************************************************)
(* Tokens                                                                  *)
(***************************************************************************)
T_hash == <<"#">>
T_let == <<"l", "e", "t">>
T_eq == <<"=">>
T_if == <<"i", "f">>
T_then == <<"t", "h", "e", "n">>
T_begin == <<"b", "e", "g", "i", "n">>
T_end == <<"e", "n", "d">>
T_print == <<"p", "r", "i", "n", "t">>
T_assert == <<"a", "s", "s", "e", "r", "t">>
T_read_int == <<"r", "e", "a", "d", "_", "i", "n", "t">>
T_plus == <<"+">>
T_minus == <<"-">>
T_eqeq == <<"=", "=">>
T_lt == <<"<">>

(***************************************************************************)
(* Scanner                                                                 *)
(***************************************************************************)
IsWs(ch) == ch \in {" ", "\t", "\r", "\n"}

RECURSIVE eat_ws(_, _)
eat_ws(s, p) ==
    IF IsWs(Ch(s, p)) THEN eat_ws(s, p + 1) ELSE p

\* eat_comment that steps over the terminating NUL like over a newline
RECURSIVE eat_comment_pastnul(_, _)
eat_comment_pastnul(s, p) ==
    IF Ch(s, p) = "\n" \/ Ch(s, p) = NUL THEN p + 1
    ELSE eat_comment_pastnul(s, p + 1)

RECURSIVE eat_comment(_, _)
eat_comment(s, p) ==
    IF Ch(s, p) = "\n" THEN p + 1
    ELSE IF Ch(s, p) = NUL THEN p
    ELSE eat_comment(s, p + 1)

\* strncmp(*pstr, token, strlen(token)) == 0
StartsWith(s, p, tok) ==
    /\ p + Len(tok) - 1 <= Len(s)
    /\ \A i \in 1..Len(tok) : s[p + i - 1] = tok[i]

\* The cursor has passed the leading whitespace even when the token is absent.
match_token(s, p, tok) ==
    LET q == eat_ws(s, p) IN
    IF StartsWith(s, q, tok)
    THEN [ok |-> TRUE, pos |-> eat_ws(s, q + Len(tok))]
    ELSE [ok |-> FALSE, pos |-> q]

RECURSIVE parse_ident_loop(_, _, _)
parse_ident_loop(s, p, ident) ==
    IF Len(ident) >= MAX_IDENT_LEN - 1
    THEN [err |-> "identifier too long", pos |-> p, ident |-> ident]
    ELSE IF ~isalnum(Ch(s, p)) /\ Ch(s, p) # "_"
    THEN [err |-> IF Len(ident) = 0 THEN "expected identifier" ELSE "",
          pos |-> p, ident |-> ident]
    ELSE parse_ident_loop(s, p + 1, Append(ident, Ch(s, p)))

parse_ident(s, p) == parse_ident_loop(s, p, <<>>)

RECURSIVE parse_int_loop(_, _, _)
parse_int_loop(s, p, num) ==
    IF ~isdigit(Ch(s, p)) THEN [pos |-> p, num |-> num]
    ELSE parse_int_loop(s, p + 1, 10 * num + DigitVal(Ch(s, p)))

parse_int(s, p) == parse_int_loop(s, p, 0)

(***************************************************************************)
(* Symbol table: the chain of declarations, most recent first              *)
(***************************************************************************)
\* find_local that looks at the head of the chain only
find_local_head(chain, ident) ==
    IF Len(chain) > 0 /\ chain[1].ident = ident THEN 1 ELSE 0

\* find_local that returns the head of the chain instead of NULL
find_local_default(chain, ident) ==
    IF \E i \in 1..Len(chain) : chain[i].ident = ident
    THEN CHOOSE i \in 1..Len(chain) :
            /\ chain[i].ident = ident
            /\ \A j \in 1..(i - 1) : chain[j].ident # ident
    ELSE IF Len(chain) > 0 THEN 1 ELSE 0

\* The position in the chain of the first declaration named ident, 0 for NULL.
find_local(chain, ident) ==
    IF \E i \in 1..Len(chain) : chain[i].ident = ident
    THEN CHOOSE i \in 1..Len(chain) :
            /\ chain[i].ident = ident
            /\ \A j \in 1..(i - 1) : chain[j].ident # ident
    ELSE 0

(***************************************************************************)
(* Parser.  A parser state st is the record                                *)
(*   pos, insns, locals : *pstr, insns[0 .. *insn_idx - 1], *plocals       *)
(*   err                : "" or the message of the fatal error (exit(-1))  *)
(*   ub                 : an instruction was stored outside insns[]        *)
(*   undecl, lets, ifs  : history of the parse (not program state):        *)
(*                        an atom named an identifier absent from the      *)
(*                        chain; the names that reached the redeclaration  *)
(*                        check of a let; for each compiled if, the index  *)
(*                        of its IFNOT and *insn_idx after its body        *)
(*   exprs, stmts       : history of the parse: for each call of           *)
(*                        parse_expr / parse_stmt that returned, *insn_idx *)
(*                        before and after it (from, to) and the cursor    *)
(*                        before and after it (start, stop)                *)
(***************************************************************************)
Instr(op, imm) == [op |-> op, imm |-> imm]

Halted(st) == st.err # "" \/ st.ub

Fail(st, msg) == [st EXCEPT !.err = msg]

\* insns[(*insn_idx)++] = (instr_t){ op, imm }: no test against MAX_INSTRS
APPEND_INSN_IMM(st, op, imm) ==
    IF Len(st.insns) >= MAX_INSTRS
    THEN [st EXCEPT !.ub = TRUE]
    ELSE [st EXCEPT !.insns = Append(st.insns, Instr(op, imm))]

\* (instr_t){ op }: the immediate is zero-initialised
APPEND_INSN(st, op) == APPEND_INSN_IMM(st, op, 0)

parse_atom(s, st) ==
    LET ch == Ch(s, st.pos)
        m == match_token(s, st.pos, T_read_int)
    IN
    IF m.ok THEN APPEND_INSN([st EXCEPT !.pos = m.pos], "OP_READINT")
    ELSE IF isdigit(ch) THEN
        LET r == parse_int(s, m.pos) IN
        APPEND_INSN_IMM([st EXCEPT !.pos = r.pos], "OP_PUSH", r.num)
    ELSE IF isalpha(ch) \/ ch = "_" THEN
        LET id == parse_ident(s, m.pos) IN
        IF id.err # "" THEN Fail([st EXCEPT !.pos = id.pos], id.err)
        ELSE
            LET k == find_local(st.locals, id.ident)
                absent == \A i \in 1..Len(st.locals) : st.locals[i].ident # id.ident
                st1 == [st EXCEPT !.pos = id.pos, !.undecl = st.undecl \/ absent]
            IN
            IF k = 0 THEN Fail(st1, "reference to undeclared variable")
            ELSE APPEND_INSN_IMM(st1, "OP_GETLOCAL", st.locals[k].idx)
    ELSE Fail([st EXCEPT !.pos = m.pos], "invalid expression")

\* the instruction that follows a parsed operand, unless the parse has ended
AppendUnlessHalted(st, op) ==
    IF Halted(st) THEN st ELSE APPEND_INSN(st, op)

\* after the operator's instruction, one more "+" and atom are consumed
chain_plus(s, r) ==
    IF Halted(r) \/ ~match_token(s, r.pos, T_plus).ok THEN r
    ELSE AppendUnlessHalted(
            parse_atom(s, [r EXCEPT !.pos = match_token(s, r.pos, T_plus).pos]),
            "OP_ADD")

\* parse_rhs that goes on to a second operator
parse_rhs_chained(s, st, op) ==
    chain_plus(s, AppendUnlessHalted(parse_atom(s, st), op))

\* the right-hand atom of a binary operator, then the operator's instruction
parse_rhs(s, st, op) == AppendUnlessHalted(parse_atom(s, st), op)

\* parse_expr after its first atom a: at most one operator and one more atom
parse_operator(s, a) ==
    IF Halted(a) THEN a
    ELSE
        LET p == eat_ws(s, a.pos)
            mAdd == match_token(s, p, T_plus)
            mSub == match_token(s, p, T_minus)
            mEq == match_token(s, p, T_eqeq)
            mLt == match_token(s, p, T_lt)
        IN
        IF mAdd.ok THEN parse_rhs(s, [a EXCEPT !.pos = mAdd.pos], "OP_ADD")
        ELSE IF mSub.ok THEN parse_rhs(s, [a EXCEPT !.pos = mSub.pos], "OP_SUB")
        ELSE IF mEq.ok THEN parse_rhs(s, [a EXCEPT !.pos = mEq.pos], "OP_EQ")
        ELSE IF mLt.ok THEN parse_rhs(s, [a EXCEPT !.pos = mLt.pos], "OP_LT")
        ELSE [a EXCEPT !.pos = p]

\* the call that started in state st has returned in state r
Returned(r, st) ==
    [from |-> Len(st.insns), to |-> Len(r.insns), start |-> st.pos, stop |-> r.pos]

expr_returns(r, st) ==
    IF Halted(r) THEN r ELSE [r EXCEPT !.exprs = Append(r.exprs, Returned(r, st))]

parse_expr(s, st) == expr_returns(parse_operator(s, parse_atom(s, st)), st)

\* the slot of the head of the chain, given again
NewLocalIdx_same(chain) == IF Len(chain) > 0 THEN chain[1].idx ELSE 0

\* new_local->idx = first_local ? (first_local->idx + 1) : 0
NewLocalIdx(chain) == IF Len(chain) > 0 THEN chain[1].idx + 1 ELSE 0

\* the back-patch without the adjustment for the loop's ++pc
IfOffset_unadjusted(pfalse, ifnot) == pfalse - ifnot

\* the back-patch with the index of the target instead of a distance
IfOffset_absolute(pfalse, ifnot) == pfalse

\* ifnot_insn->imm.int_val = (pfalse - ifnot_insn) - 1
IfOffset(pfalse, ifnot) == (pfalse - ifnot) - 1

\* let-decl after its expression e: the redeclaration check, the new head of
\* the chain, SETLOCAL
declare_local(e, ident) ==
    IF Halted(e) THEN e
    ELSE IF find_local(e.locals, ident) # 0
    THEN Fail([e EXCEPT !.lets = Append(e.lets, ident)],
              "local variable already declared")
    ELSE
        LET new_local == [ident |-> ident, idx |-> NewLocalIdx(e.locals)] IN
        APPEND_INSN_IMM([e EXCEPT !.lets = Append(e.lets, ident),
                                  !.locals = <<new_local>> \o e.locals],
                        "OP_SETLOCAL", new_local.idx)

\* let-decl: the name, "=", the expression, then the declaration
parse_let(s, st) ==
    LET id == parse_ident(s, st.pos)
        m == match_token(s, id.pos, T_eq)
    IN
    IF id.err # "" THEN Fail([st EXCEPT !.pos = id.pos], id.err)
    ELSE IF ~m.ok THEN Fail([st EXCEPT !.pos = m.pos], "expected token")
    ELSE declare_local(parse_expr(s, [st EXCEPT !.pos = m.pos]), id.ident)

\* print-stmt that leaves the value of the expression on the stack
parse_print_keep(s, st) == parse_expr(s, st)

\* print-stmt: the expression, then PRINT
parse_print(s, st) == AppendUnlessHalted(parse_expr(s, st), "OP_PRINT")

\* the assertion whose jump skips nothing
emit_assert_skip0(e) ==
    IF Halted(e) THEN e
    ELSE AppendUnlessHalted(APPEND_INSN_IMM(e, "OP_IF", 0), "OP_ERROR")

\* the assertion whose jump skips the ERROR and one instruction more
emit_assert_skip2(e) ==
    IF Halted(e) THEN e
    ELSE AppendUnlessHalted(APPEND_INSN_IMM(e, "OP_IF", 2), "OP_ERROR")

\* assert-stmt after its expression e: IF 1 (skip one instruction when true),
\* then ERROR
emit_assert(e) ==
    IF Halted(e) THEN e
    ELSE AppendUnlessHalted(APPEND_INSN_IMM(e, "OP_IF", 1), "OP_ERROR")

parse_assert(s, st) == emit_assert(parse_expr(s, st))

RECURSIVE parse_stmt(_, _)
RECURSIVE parse_begin(_, _)

stmt_returns(r, st) ==
    IF Halted(r) THEN r ELSE [r EXCEPT !.stmts = Append(r.stmts, Returned(r, st))]

\* if-stmt after its body b: the back-patch of the IFNOT at index ifnot
patch_if(b, ifnot) ==
    IF Halted(b) THEN b
    ELSE [b EXCEPT !.insns[ifnot + 1].imm = IfOffset(Len(b.insns), ifnot),
                   !.ifs = Append(b.ifs, [at |-> ifnot, end |-> Len(b.insns)])]

\* if-stmt after IFNOT 0 has been appended (state j): the body statement
parse_body(s, j, ifnot) ==
    IF Halted(j) THEN j ELSE patch_if(parse_stmt(s, j), ifnot)

\* if-stmt after its test e: "then", IFNOT 0
parse_then(s, e) ==
    IF Halted(e) THEN e
    ELSE
        LET m == match_token(s, e.pos, T_then) IN
        IF ~m.ok THEN Fail([e EXCEPT !.pos = m.pos], "expected token")
        ELSE parse_body(s, APPEND_INSN_IMM([e EXCEPT !.pos = m.pos], "OP_IFNOT", 0),
                        Len(e.insns))

\* if-stmt: the test, "then", IFNOT 0, the body, the back-patch
parse_if(s, st) == parse_then(s, parse_expr(s, st))

\* begin-block after one more statement b
parse_begin_next(s, b) ==
    IF Halted(b) THEN b ELSE parse_begin(s, b)

\* the loop of a begin-block: until "end", parse one more statement
parse_begin(s, st) ==
    LET m == match_token(s, st.pos, T_end) IN
    IF m.ok THEN [st EXCEPT !.pos = m.pos]
    ELSE parse_begin_next(s, parse_stmt(s, [st EXCEPT !.pos = m.pos]))

\* the statement that starts at the cursor of st, by its first token
parse_stmt_token(s, st) ==
    LET p == eat_ws(s, st.pos)
        mHash == match_token(s, p, T_hash)
        mLet == match_token(s, p, T_let)
        mIf == match_token(s, p, T_if)
        mBegin == match_token(s, p, T_begin)
        mPrint == match_token(s, p, T_print)
        mAssert == match_token(s, p, T_assert)
    IN
    IF mHash.ok THEN [st EXCEPT !.pos = eat_comment(s, mHash.pos)]
    ELSE IF mLet.ok THEN parse_let(s, [st EXCEPT !.pos = mLet.pos])
    ELSE IF mIf.ok THEN parse_if(s, [st EXCEPT !.pos = mIf.pos])
    ELSE IF mBegin.ok THEN parse_begin(s, [st EXCEPT !.pos = mBegin.pos])
    ELSE IF mPrint.ok THEN parse_print(s, [st EXCEPT !.pos = mPrint.pos])
    ELSE IF mAssert.ok THEN parse_assert(s, [st EXCEPT !.pos = mAssert.pos])
    ELSE Fail([st EXCEPT !.pos = p], "invalid statement")

parse_stmt(s, st) == stmt_returns(parse_stmt_token(s, st), st)

(***************************************************************************)
(* parse_file as a function of the source text: the loop run to its end    *)
(***************************************************************************)
RECURSIVE parse_file_loop(_, _)

\* after one more statement r
parse_file_next(s, r) ==
    IF Halted(r) THEN r ELSE parse_file_loop(s, r)

\* until *current_ch == '\0', parse one more statement
parse_file_loop(s, st) ==
    IF Ch(s, st.pos) = NUL THEN st ELSE parse_file_next(s, parse_stmt(s, st))

parse_file(s) ==
    parse_file_loop(s, [pos |-> 1, insns |-> <<>>, locals |-> <<>>, err |-> "",
                        ub |-> FALSE, undecl |-> FALSE, lets |-> <<>>,
                        ifs |-> <<>>, exprs |-> <<>>, stmts |-> <<>>])

(***************************************************************************)
(* Console output                                                          *)
(***************************************************************************)
RECURSIVE FormatNat(_)
FormatNat(n) ==
    IF n < 10 THEN <<DigitChars[n + 1]>>
    ELSE FormatNat(n \div 10) \o <<DigitChars[(n % 10) + 1]>>

\* printf("%lld", v)
FormatInt(v) == IF v < 0 THEN <<"-">> \o FormatNat(0 - v) ELSE FormatNat(v)

\* printf("print: %lld\n", (long long)int_val)
PrintLine(v) == <<"p", "r", "i", "n", "t", ":", " ">> \o FormatInt(v) \o <<"\n">>

\* printf("Input an integer value:\n"); printf("> ")
Prompt == <<"I", "n", "p", "u", "t", " ", "a", "n", " ", "i", "n", "t", "e", "g", "e", "r", " ", "v", "a", "l", "u", "e", ":", "\n", ">", " ">>

(***************************************************************************)
(* Source texts the model is run on                                        *)
(***************************************************************************)
S_print7 == <<"p", "r", "i", "n", "t", " ", "7", "\n">>
S_letx == <<"l", "e", "t", " ", "x", " ", "=", " ", "5", "\n">>
S_printsub == <<"p", "r", "i", "n", "t", " ", "7", " ", "-", " ", "x", "\n">>
S_if0 == <<"i", "f", " ", "0", " ", "t", "h", "e", "n", " ">>
S_if1 == <<"i", "f", " ", "1", " ", "<", " ", "2", " ", "t", "h", "e", "n", " ">>
S_begin == <<"b", "e", "g", "i", "n", "\n">>
S_end == <<"e", "n", "d", "\n">>
S_assert0 == <<"a", "s", "s", "e", "r", "t", " ", "0", "\n">>
S_assertx == <<"a", "s", "s", "e", "r", "t", " ", "x", " ", "=", "=", " ", "5", "\n">>
S_cmt == <<"#", " ", "c", "\n">>
S_cmt0 == <<"#", "\n">>
S_lety == <<"l", "e", "t", " ", "y", " ", "=", " ", "x", " ", "+", " ", "1", "\n">>
S_letr == <<"l", "e", "t", " ", "r", "e", "a", "d", "_", "i", "n", "t", " ", "=", " ", "r", "e", "a", "d", "_", "i", "n", "t", "\n">>
S_printx == <<"p", "r", "i", "n", "t", " ", "x", "\n">>

Pieces ==
    {S_print7, S_letx, S_printx, S_printsub, S_if0, S_if1, S_begin, S_end,
     S_assert0, S_assertx, S_cmt, S_cmt0, S_lety, S_letr}

RECURSIVE Flatten(_)
Flatten(ss) == IF Len(ss) = 0 THEN <<>> ELSE Head(ss) \o Flatten(Tail(ss))

\* up to MaxStmts fragments, one after the other
StmtSources == {Flatten(f) : f \in UNION {[1..k -> Pieces] : k \in 0..MaxStmts}}

\* print <literal>, the literal of 1 .. MaxDigits decimal digits, no final newline
PrintSources ==
    {T_print \o <<" ">> \o [i \in 1..Len(d) |-> DigitChars[d[i]]] :
        d \in UNION {[1..k -> 1..10] : k \in 1..MaxDigits}}

\* let v000 = 1 ... let v<n-1> = 1, every line LetLineLen characters long
LetLine(k) ==
    <<"l", "e", "t", " ", "v", DigitChars[(k \div 100) + 1],
      DigitChars[((k \div 10) % 10) + 1], DigitChars[(k % 10) + 1],
      " ", "=", " ", "1", "\n">>

LetLineLen == Len(LetLine(0))

LetLines(n) ==
    [i \in 1..(n * LetLineLen) |->
        LetLine((i - 1) \div LetLineLen)[((i - 1) % LetLineLen) + 1]]

\* one declaration more than the locals array has slots
CapSources == {LetLines(MAX_LOCALS + 1)}

Operators == {T_plus, T_minus, T_eqeq, T_lt}

\* print a<op>b, no final newline
ExprSources ==
    {T_print \o <<" ", a>> \o op \o <<b>> :
        a \in {"0", "1", "2"}, b \in {"0", "1", "2"}, op \in Operators}

\* print 1<op>2<op'>3
ChainSources ==
    {T_print \o <<" ", "1">> \o op1 \o <<"2">> \o op2 \o <<"3">> :
        op1 \in Operators, op2 \in Operators}

S_letm == <<"l", "e", "t", " ", "m", " ", "=", " ", "0", " ", "-", " ">>
S_printm == <<"\n", "p", "r", "i", "n", "t", " ", "m", " ", "-", " ", "2">>

\* print INT64_MAX + 1, and let m = 0 - INT64_MAX, print m - 2
OverflowSources ==
    {T_print \o <<" ">> \o FormatNat(INT64_MAX) \o <<" ", "+", " ", "1">>,
     S_letm \o FormatNat(INT64_MAX) \o S_printm}

\* a declaration inside a begin...end block, itself the body of an if or
\* not, and a declaration after the block
BlockSources ==
    {Flatten(<<S_begin, S_letx, S_end, S_lety, S_printx>>),
     Flatten(<<S_if0, S_begin, S_letx, S_end, S_lety, S_printx>>),
     Flatten(<<S_if1, S_begin, S_letx, S_end, S_lety, S_printx>>)}

Sources ==
    StmtSources \cup PrintSources \cup CapSources \cup ExprSources
        \cup ChainSources \cup OverflowSources \cup BlockSources

\* what an uninitialised cell of insns[] may hold
JunkInstrs == {Instr(o, 0) : o \in {"OP_EXIT", "OP_ERROR", "OP_PRINT", "OP_UNKNOWN"}}

\* what an uninitialised slot of vars[] (lvars) may hold
UninitVals == {0, 3}

\* the runs of decimal digits standard input may start with
StdinRuns == {<<>>, <<"4">>, <<"1", "2">>}

(***************************************************************************)
(* State after construction: main has been given the file, nothing parsed  *)
(***************************************************************************)
\* exitcode is -1 while the process has not exited; exit(-1) is status 255
Init ==
    /\ src \in Sources
    /\ pos = 1
    /\ insns = <<>>
    /\ locals = <<>>
    /\ ghost = [undecl |-> FALSE, lets |-> <<>>, ifs |-> <<>>,
                exprs |-> <<>>, stmts |-> <<>>]
    /\ last = [pos |-> 0, n |-> 0]
    /\ status = "parsing"
    /\ exitcode = -1
    /\ errmsg = ""
    /\ pc = 0
    /\ stack = <<>>
    /\ lvars = <<>>
    /\ out = <<>>
    /\ log = <<>>

(***************************************************************************)
(* parse_file: one iteration of the loop, and its end                      *)
(***************************************************************************)
ParserState ==
    [pos |-> pos, insns |-> insns, locals |-> locals, err |-> "", ub |-> FALSE,
     undecl |-> ghost.undecl, lets |-> ghost.lets, ifs |-> ghost.ifs,
     exprs |-> ghost.exprs, stmts |-> ghost.stmts]

\* the state of the process when parse_stmt has returned r or has exited
AfterStmt(r) ==
    /\ pos' = r.pos
    /\ insns' = r.insns
    /\ locals' = r.locals
    /\ ghost' = [undecl |-> r.undecl, lets |-> r.lets, ifs |-> r.ifs,
                 exprs |-> r.exprs, stmts |-> r.stmts]
    /\ last' = [pos |-> pos, n |-> Len(insns)]
    /\ status' = IF r.err # "" THEN "fatal" ELSE IF r.ub THEN "ub" ELSE "parsing"
    /\ exitcode' = IF r.err # "" THEN 255 ELSE exitcode
    /\ errmsg' = r.err

\* *current_ch != '\0': parse_stmt(pstr, insns, &insn_idx, &local_vars)
parse_file_stmt ==
    /\ status = "parsing"
    /\ Ch(src, pos) # NUL
    /\ AfterStmt(parse_stmt(src, ParserState))
    /\ UNCHANGED <<src, pc, stack, lvars, out, log>>

\* *current_ch == '\0': parse_file returns and main calls eval(insns)
parse_file_end ==
    /\ status = "parsing"
    /\ Ch(src, pos) = NUL
    /\ status' = "running"
    /\ pc' = 0
    /\ stack' = <<>>
    /\ lvars' = <<>>
    /\ UNCHANGED <<src, pos, insns, locals, ghost, last, exitcode, errmsg, out, log>>

(***************************************************************************)
(* eval: one action per case of the switch                                 *)
(***************************************************************************)
\* *pc; insns[] is malloc'ed and holds nothing the parser did not emit
Fetch(junk) == IF pc < Len(insns) THEN insns[pc + 1] ELSE junk

Logged(ins, v) == Append(log, [pc |-> pc, op |-> ins.op, imm |-> ins.imm, v |-> v])

\* the step leaves the defined behaviour of the program
Undefined(ins) ==
    /\ status' = "ub"
    /\ log' = Logged(ins, 0)
    /\ UNCHANGED <<src, pos, insns, locals, ghost, last, exitcode, errmsg,
                   pc, stack, lvars, out>>

\* the step ends with the stack st, the counter at p, and v in the log
Continue(ins, st, p, v) ==
    /\ stack' = st
    /\ pc' = p
    /\ log' = Logged(ins, v)
    /\ UNCHANGED <<src, pos, insns, locals, ghost, last, status, exitcode, errmsg>>

\* the process ends with exit status code
Halt(ins, st, code, msg) ==
    /\ status' = st
    /\ exitcode' = code
    /\ errmsg' = msg
    /\ log' = Logged(ins, 0)
    /\ UNCHANGED <<src, pos, insns, locals, ghost, last, pc, stack, lvars, out>>

\* PUSH(v): stack[stack_size] = v, stack_size++, no test against MAX_STACK
PushOk(st) == Len(st) < MAX_STACK

\* POP(): stack_size--, stack[stack_size], no test against 0
Top(st) == st[Len(st)]

Pop(st) == SubSeq(st, 1, Len(st) - 1)

eval_OP_EXIT ==
    \E junk \in JunkInstrs :
        /\ status = "running"
        /\ Fetch(junk).op = "OP_EXIT"
        /\ Halt(Fetch(junk), "exited", 0, "")

eval_OP_ERROR ==
    \E junk \in JunkInstrs :
        /\ status = "running"
        /\ Fetch(junk).op = "OP_ERROR"
        /\ Halt(Fetch(junk), "fatal", 255, "Run-time error")

eval_OP_PUSH ==
    \E junk \in JunkInstrs :
        LET ins == Fetch(junk) IN
        /\ status = "running"
        /\ ins.op = "OP_PUSH"
        /\ IF PushOk(stack)
           THEN Continue(ins, Append(stack, ins.imm), pc + 1, ins.imm)
                /\ UNCHANGED <<lvars, out>>
           ELSE Undefined(ins)

eval_OP_SETLOCAL ==
    \E junk \in JunkInstrs :
        LET ins == Fetch(junk) IN
        /\ status = "running"
        /\ ins.op = "OP_SETLOCAL"
        /\ IF Len(stack) > 0 /\ ins.imm < MAX_LOCALS
           THEN /\ Continue(ins, Pop(stack), pc + 1, Top(stack))
                /\ lvars' = (ins.imm :> Top(stack)) @@ lvars
                /\ out' = out
           ELSE Undefined(ins)

eval_OP_GETLOCAL ==
    \E junk \in JunkInstrs :
        LET ins == Fetch(junk) IN
        /\ status = "running"
        /\ ins.op = "OP_GETLOCAL"
        /\ IF PushOk(stack) /\ ins.imm < MAX_LOCALS
           THEN /\ \E v \in (IF ins.imm \in DOMAIN lvars THEN {lvars[ins.imm]} ELSE UninitVals) :
                    Continue(ins, Append(stack, v), pc + 1, v)
                /\ UNCHANGED <<lvars, out>>
           ELSE Undefined(ins)

\* arg1 = POP(), arg0 = POP(), PUSH(f(arg0, arg1)).  arg0 + arg1 and
\* arg0 - arg1 are signed: a result outside int64_t is undefined behaviour,
\* which a build either wraps or traps.
Binary(ins, v) ==
    /\ Continue(ins, Append(Pop(Pop(stack)), v), pc + 1, v)
    /\ UNCHANGED <<lvars, out>>

Arg1 == stack[Len(stack)]

Arg0 == stack[Len(stack) - 1]

eval_OP_EQ ==
    \E junk \in JunkInstrs :
        LET ins == Fetch(junk) IN
        /\ status = "running"
        /\ ins.op = "OP_EQ"
        /\ IF Len(stack) >= 2
           THEN Binary(ins, IF Arg0 = Arg1 THEN 1 ELSE 0)
           ELSE Undefined(ins)

eval_OP_LT ==
    \E junk \in JunkInstrs :
        LET ins == Fetch(junk) IN
        /\ status = "running"
        /\ ins.op = "OP_LT"
        /\ IF Len(stack) >= 2
           THEN Binary(ins, IF Arg0 < Arg1 THEN 1 ELSE 0)
           ELSE Undefined(ins)

eval_OP_ADD ==
    \E junk \in JunkInstrs :
        LET ins == Fetch(junk) IN
        /\ status = "running"
        /\ ins.op = "OP_ADD"
        /\ IF Len(stack) >= 2
           THEN \/ Binary(ins, Wrap(Arg0 + Arg1))
                \/ Overflows(Arg0 + Arg1) /\ Undefined(ins)
           ELSE Undefined(ins)

eval_OP_SUB ==
    \E junk \in JunkInstrs :
        LET ins == Fetch(junk) IN
        /\ status = "running"
        /\ ins.op = "OP_SUB"
        /\ IF Len(stack) >= 2
           THEN \/ Binary(ins, Wrap(Arg0 - Arg1))
                \/ Overflows(Arg0 - Arg1) /\ Undefined(ins)
           ELSE Undefined(ins)

\* test_val != 0: pc += jump_offset, then the loop's ++pc
IfTaken(test_val) == test_val # 0

eval_OP_IF ==
    \E junk \in JunkInstrs :
        LET ins == Fetch(junk) IN
        /\ status = "running"
        /\ ins.op = "OP_IF"
        /\ IF Len(stack) >= 1
           THEN /\ Continue(ins, Pop(stack),
                            IF IfTaken(Top(stack)) THEN pc + ins.imm + 1 ELSE pc + 1,
                            Top(stack))
                /\ UNCHANGED <<lvars, out>>
           ELSE Undefined(ins)

\* test_val == 0: pc += jump_offset, then the loop's ++pc
IfNotTaken(test_val) == test_val = 0

eval_OP_IFNOT ==
    \E junk \in JunkInstrs :
        LET ins == Fetch(junk) IN
        /\ status = "running"
        /\ ins.op = "OP_IFNOT"
        /\ IF Len(stack) >= 1
           THEN /\ Continue(ins, Pop(stack),
                            IF IfNotTaken(Top(stack)) THEN pc + ins.imm + 1 ELSE pc + 1,
                            Top(stack))
                /\ UNCHANGED <<lvars, out>>
           ELSE Undefined(ins)

\* the prompt, then a maximal run of decimal digits of standard input
eval_OP_READINT ==
    \E junk \in JunkInstrs :
        LET ins == Fetch(junk) IN
        /\ status = "running"
        /\ ins.op = "OP_READINT"
        /\ IF PushOk(stack)
           THEN /\ \E run \in StdinRuns :
                    LET int_val == parse_int(run, 1).num IN
                    Continue(ins, Append(stack, int_val), pc + 1, int_val)
                /\ out' = out \o Prompt
                /\ lvars' = lvars
           ELSE Undefined(ins)

eval_OP_PRINT ==
    \E junk \in JunkInstrs :
        LET ins == Fetch(junk) IN
        /\ status = "running"
        /\ ins.op = "OP_PRINT"
        /\ IF Len(stack) >= 1
           THEN /\ Continue(ins, Pop(stack), pc + 1, Top(stack))
                /\ out' = out \o PrintLine(Top(stack))
                /\ lvars' = lvars
           ELSE Undefined(ins)

KnownOps ==
    {"OP_EXIT", "OP_ERROR", "OP_PUSH", "OP_GETLOCAL", "OP_SETLOCAL", "OP_EQ",
     "OP_LT", "OP_IF", "OP_IFNOT", "OP_ADD", "OP_SUB", "OP_READINT", "OP_PRINT"}

eval_default ==
    \E junk \in JunkInstrs :
        /\ status = "running"
        /\ Fetch(junk).op \notin KnownOps
        /\ Halt(Fetch(junk), "fatal", 255, "unknown bytecode instruction")

Next ==
    \/ parse_file_stmt
    \/ parse_file_end
    \/ eval_OP_EXIT
    \/ eval_OP_ERROR
    \/ eval_OP_PUSH
    \/ eval_OP_SETLOCAL
    \/ eval_OP_GETLOCAL
    \/ eval_OP_EQ
    \/ eval_OP_LT
    \/ eval_OP_IF
    \/ eval_OP_IFNOT
    \/ eval_OP_ADD
    \/ eval_OP_SUB
    \/ eval_OP_READINT
    \/ eval_OP_PRINT
    \/ eval_default

Spec == Init /\ [][Next]_vars

(***************************************************************************)
(* Properties                                                              *)
(***************************************************************************)
Terminated == status \in {"exited", "fatal", "ub"}

\* the value of a run of decimal digits
RECURSIVE DecVal(_)
DecVal(ds) ==
    IF Len(ds) = 0 THEN 0
    ELSE 10 * DecVal(SubSeq(ds, 1, Len(ds) - 1)) + DigitVal(ds[Len(ds)])

\* the literal of a source of PrintSources: what follows "print "
Literal == SubSeq(src, Len(T_print) + 2, Len(src))

\* C1: the one-statement program `print n`, n a representable literal, writes
\* exactly the line "print: n" and a newline to standard output, nothing
\* else, and ends with exit status 0.
C1_PrintLiteral ==
    (src \in PrintSources /\ Terminated) =>
        /\ status = "exited"
        /\ exitcode = 0
        /\ out = PrintLine(DecVal(Literal))

\* C2: an assert whose expression is nonzero does not halt the run and
\* writes nothing: its IF, reached with a nonzero test, leaves the output
\* alone and continues after the ERROR.  An assert whose expression is 0
\* halts the run: its IF continues at the ERROR, which ends the process with
\* a non-zero exit status and no output of its own; nothing runs afterwards.
\* Only PRINT and READINT, which an assert emits for a read_int atom alone,
\* write to standard output.
C2_Step ==
    /\ status # "fatal"
    /\ (status = "running" /\ pc < Len(insns) /\ insns[pc + 1].op = "OP_IF"
            /\ Len(stack) >= 1) =>
        /\ out' = out
        /\ status' = "running"
        /\ Top(stack) # 0 => pc' = pc + 2
        /\ Top(stack) = 0 =>
            pc' = pc + 1 /\ pc' < Len(insns) /\ insns[pc' + 1].op = "OP_ERROR"
    /\ (status = "running" /\ pc < Len(insns) /\ insns[pc + 1].op = "OP_ERROR") =>
        /\ status' = "fatal"
        /\ exitcode' # 0
        /\ out' = out
    /\ (status = "running" /\ pc < Len(insns)
            /\ insns[pc + 1].op \notin {"OP_PRINT", "OP_READINT"}) =>
        out' = out

\* the compiled form of the asserts: each IF skips exactly the ERROR that
\* follows it, and an ERROR is reached only through the IF before it
C2_Compiled ==
    \A i \in 1..Len(insns) :
        /\ insns[i].op = "OP_IF" =>
            (status = "fatal" /\ log = <<>>) \/
                (insns[i].imm = 1 /\ i < Len(insns) /\ insns[i + 1].op = "OP_ERROR")
        /\ insns[i].op = "OP_ERROR" => (i > 1 /\ insns[i - 1].op = "OP_IF")

\* after a failed assertion: the exit status, and no instruction of a
\* statement textually after the assert has run
C2_Halted ==
    (status = "fatal" /\ errmsg = "Run-time error" /\ pc < Len(insns)) =>
        /\ exitcode = 255
        /\ \A k \in 1..Len(log) : log[k].pc <= pc
        /\ Len(log) >= 2
        /\ log[Len(log)].op = "OP_ERROR"
        /\ log[Len(log) - 1].op = "OP_IF"
        /\ log[Len(log) - 1].v = 0

C3_ReferenceYieldsValue ==
    \A k \in 1..Len(log) :
        (log[k].op = "OP_GETLOCAL" /\ log[k].pc < Len(insns)) =>
            \E j \in 1..(k - 1) :
                /\ log[j].op = "OP_SETLOCAL"
                /\ log[j].imm = log[k].imm
                /\ log[j].v = log[k].v

\* C4: `if E then S`.  With E = 0 the IFNOT changes neither the output nor a
\* local, execution resumes at the first instruction after S, and no
\* instruction of S ever runs; with E # 0 execution enters S, and no
\* instruction of the program runs twice.
C4_Step ==
    (status = "running" /\ pc < Len(insns) /\ insns[pc + 1].op = "OP_IFNOT"
        /\ Len(stack) >= 1) =>
        \E k \in 1..Len(ghost.ifs) :
            /\ ghost.ifs[k].at = pc
            /\ pc' = IF Top(stack) = 0 THEN ghost.ifs[k].end ELSE pc + 1
            /\ out' = out
            /\ lvars' = lvars
            /\ status' = "running"

C4_Skipped ==
    /\ \A k \in 1..(Len(log) - 1) : log[k].pc < log[k + 1].pc
    /\ \A k \in 1..Len(log) :
        (log[k].op = "OP_IFNOT" /\ log[k].v = 0 /\ log[k].pc < Len(insns)) =>
            \A f \in 1..Len(ghost.ifs) :
                ghost.ifs[f].at = log[k].pc =>
                    \A j \in 1..Len(log) :
                        ~(log[j].pc > ghost.ifs[f].at /\ log[j].pc < ghost.ifs[f].end)

C4_If == [][C4_Step]_vars /\ []C4_Skipped

\* a false if whose body is not empty was skipped, and the statement after it
\* ran and wrote its line
C4_Witness ==
    /\ \E k \in 1..Len(log), f \in 1..Len(ghost.ifs) :
        /\ log[k].op = "OP_IFNOT"
        /\ log[k].v = 0
        /\ ghost.ifs[f].at = log[k].pc
        /\ ghost.ifs[f].end > ghost.ifs[f].at + 1
        /\ ghost.ifs[f].end < Len(insns)
        /\ k < Len(log)
        /\ log[k + 1].pc = ghost.ifs[f].end
    /\ out = PrintLine(7)

\* C5: a program with an atom naming an undeclared variable is rejected at
\* parse time with a non-zero exit status, and not one instruction runs, not
\* even of the statements before the reference; no instruction runs before
\* the whole source has been parsed.
C5_UndeclaredRejected ==
    /\ ghost.undecl =>
        /\ status = "fatal"
        /\ exitcode = 255
        /\ errmsg = "reference to undeclared variable"
        /\ log = <<>>
        /\ out = <<>>
    /\ (log # <<>> \/ out # <<>>) =>
        /\ Ch(src, pos) = NUL
        /\ status \in {"running", "exited", "fatal", "ub"}
        /\ status = "fatal" => errmsg \in {"Run-time error", "unknown bytecode instruction"}

\* the rejected reference comes after statements that compiled
C5_Witness ==
    /\ ghost.undecl
    /\ status = "fatal"
    /\ Len(insns) > 0
    /\ Len(locals) > 0

\* an atom spelled as the name of locals[i], parsed with the chain as it is
AtomOf(i) ==
    parse_atom(locals[i].ident,
               [pos |-> 1, insns |-> <<>>, locals |-> locals, err |-> "",
                ub |-> FALSE, undecl |-> FALSE, lets |-> <<>>, ifs |-> <<>>,
                exprs |-> <<>>, stmts |-> <<>>])

\* C6: for every name in the declaration chain, an atom spelled as that name
\* compiles to exactly one GETLOCAL of the name's slot and consumes exactly
\* the characters of the name.
C6_AtomResolves ==
    \A i \in 1..Len(locals) :
        /\ AtomOf(i).err = ""
        /\ AtomOf(i).insns = <<Instr("OP_GETLOCAL", locals[i].idx)>>
        /\ AtomOf(i).pos = Len(locals[i].ident) + 1

HasDuplicate(names) ==
    \E i, j \in 1..Len(names) : i < j /\ names[i] = names[j]

\* C7: a let whose name an earlier let declared is the fatal parse-time error
\* "already declared", with a non-zero exit status and nothing executed; the
\* declaration chain never holds a name twice.
C7_NoRedeclaration ==
    /\ ~HasDuplicate([i \in 1..Len(locals) |-> locals[i].ident])
    /\ HasDuplicate(ghost.lets) =>
        /\ status = "fatal"
        /\ errmsg = "local variable already declared"
        /\ exitcode = 255
        /\ log = <<>>
        /\ out = <<>>

\* a redeclaration was rejected
C7_Witness ==
    /\ HasDuplicate(ghost.lets)
    /\ status = "fatal"
    /\ Len(locals) >= 1

\* C8: once the program counter is past the last emitted instruction, the run
\* ends as if by EXIT: no further output and exit status 0, whatever the
\* instruction buffer held.
C8_PastEndExits ==
    (log # <<>> /\ log[Len(log)].pc >= Len(insns)) =>
        /\ status = "exited"
        /\ exitcode = 0

\* C9: exceeding a fixed capacity is a fatal error: when more locals are
\* declared than vars[] has slots, or more instructions emitted than insns[]
\* holds, the process has exited with a non-zero status, and no slot outside
\* vars[] is named by an instruction.
C9_CapacityFatal ==
    /\ (Len(locals) > MAX_LOCALS \/ Len(insns) > MAX_INSTRS) =>
        (status = "fatal" /\ exitcode # 0)
    /\ status # "fatal" =>
        \A i \in 1..Len(insns) :
            insns[i].op \in {"OP_SETLOCAL", "OP_GETLOCAL"} => insns[i].imm < MAX_LOCALS

\* the cursor after the line that holds position p
LineEnd(s, p) ==
    IF \E i \in p..Len(s) : s[i] = "\n"
    THEN (CHOOSE i \in p..Len(s) : s[i] = "\n" /\ \A j \in p..(i - 1) : s[j] # "\n") + 1
    ELSE Len(s) + 1

\* C10: a comment statement consumes the characters from "#" to the end of
\* that line and emits no instruction, so that the statement on the next line
\* is still to be parsed.
C10_CommentOneLine ==
    (last.pos > 0 /\ Ch(src, eat_ws(src, last.pos)) = "#") =>
        /\ pos = LineEnd(src, eat_ws(src, last.pos))
        /\ Len(insns) = last.n

WsChars == {" ", "\t", "\r", "\n"}

\* s with the character w inserted after its first i characters
Insert(s, i, w) == SubSeq(s, 1, i) \o <<w>> \o SubSeq(s, i + 1, Len(s))

\* position i of s lies in a comment: after a "#" of the same line
InComment(s, i) ==
    \E j \in 1..i : s[j] = "#" /\ \A k \in j..i : s[k] # "\n"

\* whether the parse r compiled, and to which instructions
Outcome(r) == IF Halted(r) THEN <<FALSE, <<>>>> ELSE <<TRUE, r.insns>>

\* C11: whitespace is insignificant: inserting one whitespace character
\* before the first statement, after the last statement or comment, or next
\* to whitespace between two tokens or two statements (outside a comment)
\* changes neither whether the source compiles nor the instructions
\* produced; in particular a file of whitespace only compiles like the empty
\* file, to no instructions.
C11_WhitespaceInsignificant ==
    (status = "parsing" /\ pos = 1 /\ src \notin CapSources) =>
        \A w \in WsChars, i \in 0..Len(src) :
            (i = 0 \/ i = Len(src) \/ (IsWs(src[i]) /\ ~InComment(src, i))) =>
                Outcome(parse_file(Insert(src, i, w))) = Outcome(parse_file(src))

AtomOps == {"OP_PUSH", "OP_GETLOCAL", "OP_READINT"}

BinaryOps == {"OP_ADD", "OP_SUB", "OP_EQ", "OP_LT"}

\* the instructions of the expression e: one atom, or atom, atom, operator
ExprShape(e) ==
    \/ /\ e.to = e.from + 1
       /\ insns[e.from + 1].op \in AtomOps
    \/ /\ e.to = e.from + 3
       /\ insns[e.from + 1].op \in AtomOps
       /\ insns[e.from + 2].op \in AtomOps
       /\ insns[e.from + 3].op \in BinaryOps

\* the last position at or before p that holds no whitespace, 0 if none
RECURSIVE SkipWsBack(_, _)
SkipWsBack(s, p) ==
    IF p >= 1 /\ IsWs(s[p]) THEN SkipWsBack(s, p - 1) ELSE p

\* the character at q ends an atom
EndsAtom(s, q) == q >= 1 /\ (isalnum(s[q]) \/ s[q] = "_")

\* the cursor p is after an atom and the whitespace that follows it
AfterAtom(s, p) == EndsAtom(s, SkipWsBack(s, p - 1))

\* what is left of the source at the cursor is an operator and the atom 3
OperatorLeft ==
    \E op \in Operators : SubSeq(src, pos, Len(src)) = op \o <<"3">>

\* C12: every expression the parser has consumed emitted one atom
\* instruction, or exactly three (atom, atom, operator), and left the cursor
\* after an atom, never after an operator.  For `print 1<op>2<op'>3` the
\* second operator is left at the cursor with PUSH 1, PUSH 2, <op>, PRINT
\* emitted, and the next statement parse is the fatal error `invalid
\* statement`: nothing runs and nothing is written.
C12_OneOperator ==
    /\ \A k \in 1..Len(ghost.exprs) :
        /\ ExprShape(ghost.exprs[k])
        /\ AfterAtom(src, ghost.exprs[k].stop)
    /\ (src \in ChainSources /\ pos # 1) =>
        /\ Len(insns) = 4
        /\ insns[1] = Instr("OP_PUSH", 1)
        /\ insns[2] = Instr("OP_PUSH", 2)
        /\ insns[3].op \in BinaryOps
        /\ insns[4].op = "OP_PRINT"
        /\ OperatorLeft
        /\ status \in {"parsing", "fatal"}
        /\ status = "fatal" =>
            /\ errmsg = "invalid statement"
            /\ exitcode = 255
            /\ log = <<>>
            /\ out = <<>>
    /\ (src \in ChainSources /\ pos = 1) => (status = "parsing" /\ insns = <<>>)

\* the chained expression was rejected after its first operator had compiled
C12_Witness ==
    /\ src \in ChainSources
    /\ status = "fatal"
    /\ errmsg = "invalid statement"
    /\ Len(insns) = 4
    /\ OperatorLeft
    /\ Len(ghost.exprs) = 1
    /\ ghost.exprs[1].to = ghost.exprs[1].from + 3

\* what the operator instruction op yields for the operands a (left) and b
\* (right), sums and differences modulo 2^IntBits in two's complement
OpValue(op, a, b) ==
    IF op = "OP_ADD" THEN Wrap(a + b)
    ELSE IF op = "OP_SUB" THEN Wrap(a - b)
    ELSE IF op = "OP_EQ" THEN (IF a = b THEN 1 ELSE 0)
    ELSE (IF a < b THEN 1 ELSE 0)

\* a step of an operator instruction of the program replaces its two
\* operands by the one value of the operation
C13_Step ==
    (status = "running" /\ pc < Len(insns) /\ insns[pc + 1].op \in BinaryOps
        /\ Len(stack) >= 2) =>
        /\ status' = "running"
        /\ pc' = pc + 1
        /\ stack' = Append(Pop(Pop(stack)), OpValue(insns[pc + 1].op, Arg0, Arg1))

\* the digit after "print " and the digit that ends a source of ExprSources
LeftDigit == DigitVal(src[Len(T_print) + 2])

RightDigit == DigitVal(src[Len(src)])

\* C13: `a op b` leaves exactly one value on the stack, computed with a as
\* the left and b as the right operand: A+B and A-B wrapping modulo the
\* width of int64_t, 1 or 0 for == and for signed <.  `print a<op>b` prints
\* that value.
C13_Operators ==
    /\ [][C13_Step]_vars
    /\ [](src \in ExprSources /\ out # <<>> =>
            out = PrintLine(OpValue(insns[3].op, LeftDigit, RightDigit)))

\* every IFNOT of a program that compiled so far belongs to a compiled if
IfnotsRecorded ==
    status # "fatal" =>
        \A i \in 1..Len(insns) :
            insns[i].op = "OP_IFNOT" =>
                \E f \in 1..Len(ghost.ifs) : ghost.ifs[f].at = i - 1

\* C14 (as the code has it): when an if has been compiled, the immediate of
\* its IFNOT is the number of instructions of the body, that is (index of
\* the first instruction after the body) - (index of the IFNOT) - 1, so that
\* the jump, added to the increment after the fetch, lands on the first
\* instruction after the body; for every body, empty and nested ones too.
C14_IfnotOffset ==
    /\ IfnotsRecorded
    /\ \A f \in 1..Len(ghost.ifs) :
        /\ insns[ghost.ifs[f].at + 1].op = "OP_IFNOT"
        /\ insns[ghost.ifs[f].at + 1].imm = ghost.ifs[f].end - ghost.ifs[f].at - 1
        /\ ghost.ifs[f].at + insns[ghost.ifs[f].at + 1].imm + 1 = ghost.ifs[f].end

\* C14 (as stated): the immediate of the IFNOT is (index of the first
\* instruction after the body) - (index of the IFNOT).
C14_IfnotDistance ==
    \A f \in 1..Len(ghost.ifs) :
        insns[ghost.ifs[f].at + 1].imm = ghost.ifs[f].end - ghost.ifs[f].at

\* an if whose body is an if with a body that emits no instruction, and an
\* if with a body that emits instructions, compiled and run
C14_Witness ==
    /\ status = "running"
    /\ log # <<>>
    /\ \E f, g \in 1..Len(ghost.ifs) :
        /\ ghost.ifs[f].at < ghost.ifs[g].at
        /\ ghost.ifs[g].end <= ghost.ifs[f].end
        /\ ghost.ifs[g].end = ghost.ifs[g].at + 1
        /\ insns[ghost.ifs[g].at + 1].imm = 0
        /\ insns[ghost.ifs[f].at + 1].imm > 0

IsSetLocal(ins) == ins.op = "OP_SETLOCAL"

\* the k-th declaration (k from 1, in textual order) is the k-th from the
\* end of the chain and the k-th SETLOCAL emitted, with slot k - 1
C15_Chain ==
    /\ Len(SelectSeq(insns, IsSetLocal)) = Len(locals)
    /\ Len(ghost.lets) \in {Len(locals), Len(locals) + 1}
    /\ \A k \in 1..Len(locals) :
        /\ locals[Len(locals) - k + 1].idx = k - 1
        /\ locals[Len(locals) - k + 1].ident = ghost.lets[k]
        /\ SelectSeq(insns, IsSetLocal)[k].imm = k - 1
    /\ \A i \in 1..Len(locals) : locals[1].idx >= locals[i].idx
    /\ \A i, j \in 1..Len(locals) : i # j => locals[i].idx # locals[j].idx

\* no step removes a declaration from the chain or changes one
C15_Step ==
    /\ Len(locals') >= Len(locals)
    /\ SubSeq(locals', Len(locals') - Len(locals) + 1, Len(locals')) = locals

\* C15: slots are allocated strictly monotonically for the whole program:
\* the k-th successful let, in textual order and whatever the nesting,
\* receives slot k - 1; the head of the chain holds the maximum slot; no two
\* declarations share a slot; no statement, a begin...end block included,
\* removes a declaration or frees a slot.
C15_Slots == [][C15_Step]_vars /\ []C15_Chain

\* x declared in a block that is the body of an if, y declared after it
C15_Witness ==
    /\ src \in BlockSources
    /\ Ch(src, 1) = "i"
    /\ Len(locals) = 2
    /\ locals[1] = [ident |-> <<"y">>, idx |-> 1]
    /\ locals[2] = [ident |-> <<"x">>, idx |-> 0]
    /\ Len(ghost.stmts) >= 4
    /\ status = "running"

\* the number of values the instruction op pops
Pops(op) ==
    IF op \in BinaryOps THEN 2
    ELSE IF op \in {"OP_SETLOCAL", "OP_PRINT", "OP_IF", "OP_IFNOT"} THEN 1
    ELSE 0

\* every instruction executed so far is one the parser emitted
InProgram == log = <<>> \/ log[Len(log)].pc < Len(insns)

\* C16: while instructions of the compiled program execute, the stack is
\* empty before the first instruction of every statement and after its
\* last, whichever way a jump went; its depth never exceeds 2; and every
\* instruction finds on the stack the values it pops.
C16_StackDiscipline ==
    InProgram =>
        /\ Len(stack) <= 2
        /\ (status = "running" /\ pc < Len(insns)) =>
            Len(stack) >= Pops(insns[pc + 1].op)
        /\ (status = "ub" /\ log # <<>>) => Len(stack) >= Pops(log[Len(log)].op)
        /\ status = "running" =>
            \A k \in 1..Len(ghost.stmts) :
                (pc = ghost.stmts[k].from \/ pc = ghost.stmts[k].to) => stack = <<>>

\* after a binary test (depth 2), an IFNOT that fell through and an IFNOT
\* that jumped, execution is at the end of the statement with an empty stack
C16_Witness ==
    /\ status = "running"
    /\ stack = <<>>
    /\ \E k \in 1..Len(ghost.stmts) :
        ghost.stmts[k].to = pc /\ ghost.stmts[k].from < pc
    /\ \E i, j, b \in 1..Len(log) :
        /\ log[i].op = "OP_IFNOT" /\ log[i].v # 0
        /\ log[j].op = "OP_IFNOT" /\ log[j].v = 0
        /\ log[b].op \in BinaryOps

\* each IF / IFNOT jumps forward, at most to the end of the program
C17_Forward ==
    \A i \in 1..Len(insns) :
        insns[i].op \in {"OP_IF", "OP_IFNOT"} =>
            /\ insns[i].imm >= 0
            /\ (i - 1) + 1 + insns[i].imm <= Len(insns)

\* a step of an instruction of the program moves the counter forward, and
\* not beyond the end of the program
C17_Step ==
    (status = "running" /\ pc < Len(insns) /\ status' = "running") =>
        (pc' > pc /\ pc' <= Len(insns))

\* the instructions of the program that have executed: each at most once,
\* in increasing order, at most as many as the parser emitted
C17_Once ==
    /\ \A j, k \in 1..Len(log) :
        (j < k /\ log[k].pc < Len(insns)) => log[j].pc < log[k].pc
    /\ Cardinality({k \in 1..Len(log) : log[k].pc < Len(insns)}) <= Len(insns)

\* while execution is inside the program, its next instruction can execute
C17_Progress ==
    (status = "running" /\ pc < Len(insns)) => ENABLED Next

\* C17: every jump the parser emits is a forward jump inside the program
\* (immediate >= 0, index + 1 + immediate <= number of instructions); so
\* the program counter strictly increases at every step, each instruction
\* executes at most once, and execution of an N-instruction program takes
\* at most N steps inside the program, each of which can be taken, before it
\* is at an ERROR or at the end of the program.
C17_ForwardJumps ==
    /\ [](C17_Forward /\ C17_Once /\ C17_Progress)
    /\ [][C17_Step]_vars

\* a taken jump of an assert skipped its ERROR and the end of the program was
\* reached in fewer steps than it has instructions
C17_Witness ==
    /\ status = "running"
    /\ pc = Len(insns)
    /\ InProgram
    /\ Len(log) < Len(insns)
    /\ \E k \in 1..Len(log) :
        /\ log[k].op = "OP_IF"
        /\ log[k].v # 0
        /\ k < Len(log)
        /\ log[k + 1].pc = log[k].pc + 2

\* every call of parse_stmt that returned moved the cursor forward, and not
\* beyond the terminating NUL
C18_Calls ==
    \A k \in 1..Len(ghost.stmts) :
        /\ ghost.stmts[k].stop > ghost.stmts[k].start
        /\ ghost.stmts[k].stop <= Len(src) + 1

\* the cursor is inside the buffer, the terminating NUL included
C18_Cursor == pos >= 1 /\ pos <= Len(src) + 1

\* an iteration of the loop of parse_file ends the process or moves the
\* cursor forward
C18_Step ==
    status = "parsing" =>
        \/ status' = "fatal"
        \/ status' = "parsing" /\ pos' > pos
        \/ status' = "running" /\ pos' = pos /\ Ch(src, pos) = NUL

\* the calls of parse_stmt that have returned are at most as many as the
\* characters the cursor has passed
C18_Bound == Len(ghost.stmts) <= pos - 1

\* C18: parsing always terminates: every call of parse_stmt either ends the
\* process with a fatal error or returns with the cursor advanced by at
\* least one character and never beyond the terminating NUL, also inside a
\* begin block that no end closes; so the loop of parse_file takes at most
\* one iteration per character of the source and finishes, successfully or
\* fatally.
C18_ParsingTerminates ==
    /\ [](C18_Calls /\ C18_Cursor /\ C18_Bound)
    /\ [][C18_Step]_vars

\* a begin block that no end closes: its statement returned, then the parse
\* ended fatally with the cursor on the terminating NUL
C18_Witness ==
    /\ StartsWith(src, 1, T_begin)
    /\ \A i \in 1..Len(src) : ~StartsWith(src, i, T_end)
    /\ Len(ghost.stmts) >= 1
    /\ status = "fatal"
    /\ errmsg = "invalid statement"
    /\ pos = Len(src) + 1

====
